---- MODULE Spec2Model ----
(***************************************************************************)
(* A model of the File Organizer Bot (organizer.py, main.py, scheduler.py, *)
(* utils.py).  Strings are sequences of atoms (an atom is one character or *)
(* one indivisible run of characters such as "txt"); a directory is the    *)
(* sequence of its path segments below the target directory; a file path   *)
(* is the pair <<directory, name>>.                                        *)
(***************************************************************************)
EXTENDS Integers, Sequences, FiniteSets, TLC

(***************************************************************************)
(* Bounds of the model.                                                    *)
(***************************************************************************)
MaxNow == 2
MaxPasses == 2

(***************************************************************************)
(* Program constants.                                                      *)
(***************************************************************************)
DefaultLastWeek == 7
DefaultLastMonth == 30
DaySeconds == 86400

VARIABLES
  config_doc,      \* the YAML document at config_path: the program's input
  organizer,       \* "unbuilt" | "built" | "raised": FileOrganizer.__init__
  config,          \* self.config
  files,           \* the file system: <<dir, name>> -> [id, mtime]
  dirs,            \* the file system: the directories below the target
  locked,          \* names in the target directory that cannot be opened
  now,             \* the wall clock, in seconds
  pc,              \* organize_files: "idle" | "running" | "done" | "returned_none" | "raised"
  dry_run,         \* organize_files: the dry_run of the pass
  listing,         \* organize_files: the names target_dir.iterdir() yields, in any order
  handled,         \* organize_files: entries of listing the loop has been through
  files_processed, \* organize_files
  files_skipped,   \* organize_files
  passes,          \* number of passes started
  files0,          \* history: files when the pass started
  dirs0,           \* history: dirs when the pass started
  events,          \* history: what process_file did for the last entry
  log,             \* history: name -> what process_file did, for the entries of the pass
  twin             \* a dry-run pass over a copy of the same directory

vars == <<config_doc, organizer, config, files, dirs, locked, now, pc, dry_run,
          listing, handled, files_processed, files_skipped, passes, files0, dirs0,
          events, log, twin>>

----------------------------------------------------------------------------
(***************************************************************************)
(* Strings and paths.                                                      *)
(***************************************************************************)

\* str.lower() on one atom
LowerAtom(a) ==
  CASE a = "TXT" -> "txt"
    [] a = "A" -> "a"
    [] a = "B" -> "b"
    [] OTHER -> a

\* str.upper() on one atom
UpperAtom(a) ==
  CASE a = "txt" -> "TXT"
    [] a = "a" -> "A"
    [] a = "b" -> "B"
    [] OTHER -> a

Lower(s) == [i \in 1..Len(s) |-> LowerAtom(s[i])]

Upper(s) == [i \in 1..Len(s) |-> UpperAtom(s[i])]

\* str.startswith
StartsWith(s, p) == Len(s) >= Len(p) /\ SubSeq(s, 1, Len(p)) = p

\* p in s, for strings
Contains(s, p) == \E i \in 1..(Len(s) + 1) : i + Len(p) - 1 <= Len(s) /\ SubSeq(s, i, i + Len(p) - 1) = p

\* str.rfind('.') + 1 : 0 when there is no dot
RFindDot(s) == IF \E i \in 1..Len(s) : s[i] = "."
               THEN CHOOSE i \in 1..Len(s) : s[i] = "." /\ \A j \in (i + 1)..Len(s) : s[j] # "."
               ELSE 0

\* PurePath.suffix : the last dot and what follows, unless the dot is first or last
Suffix(name) == LET i == RFindDot(name) IN
                IF 1 < i /\ i < Len(name) THEN SubSeq(name, i, Len(name)) ELSE <<>>

\* PurePath.stem
Stem(name) == LET i == RFindDot(name) IN
              IF 1 < i /\ i < Len(name) THEN SubSeq(name, 1, i - 1) ELSE name

\* s.split('_')[0]
SplitFirst(s) == IF \E i \in 1..Len(s) : s[i] = "_"
                 THEN SubSeq(s, 1, (CHOOSE i \in 1..Len(s) : s[i] = "_" /\ \A j \in 1..(i - 1) : s[j] # "_") - 1)
                 ELSE s

\* str.replace(token, value), the token being one atom of the template
RECURSIVE Replace(_, _, _)
Replace(s, token, value) ==
  IF s = <<>> THEN <<>>
  ELSE (IF Head(s) = token THEN value ELSE <<Head(s)>>) \o Replace(Tail(s), token, value)

\* os.path.join(a, b) for a relative b
PathJoin(a, b) == IF a = <<>> \/ a[Len(a)] = "/" THEN a \o b ELSE a \o <<"/">> \o b

\* Path(target) / s : the segments of s, empty segments dropped
RECURSIVE PathParts(_, _)
PathParts(s, cur) ==
  IF s = <<>> THEN (IF cur = <<>> THEN <<>> ELSE <<cur>>)
  ELSE IF Head(s) = "/" THEN (IF cur = <<>> THEN <<>> ELSE <<cur>>) \o PathParts(Tail(s), <<>>)
  ELSE PathParts(Tail(s), Append(cur, Head(s)))

\* dict.get(key, default)
Get(d, key, default) == IF key \in DOMAIN d THEN d[key] ELSE default

\* list membership
InList(x, l) == \E i \in 1..Len(l) : l[i] = x

----------------------------------------------------------------------------
(***************************************************************************)
(* The clock and modification times.                                       *)
(***************************************************************************)

\* datetime.now().strftime("%Y%m%d_%H%M%S") : one atom per second
Timestamp(t) == <<"20261104_000000", "20261104_000001", "20261104_000002", "20261104_000003",
                  "20261104_000004">>[t + 1]

\* mod_time.strftime(fmt) for the modification times of the model
Strftime(mtime, fmt) ==
  LET age == (0 - mtime) \div DaySeconds IN
  CASE fmt = "%Y" -> IF age >= 308 THEN "2025" ELSE "2026"
    [] fmt = "%m" -> IF age >= 400 THEN "09" ELSE IF age >= 4 THEN "10" ELSE "11"
    [] fmt = "%d" -> IF age >= 400 THEN "30" ELSE IF age >= 10 THEN "25" ELSE "01"
    [] fmt = "%H" -> "00"
    [] fmt = "%M" -> "00"

----------------------------------------------------------------------------
(***************************************************************************)
(* The file system below the target directory.                             *)
(***************************************************************************)

Root == <<>>

\* Path.exists() of dir / name : a file or a directory is there
Exists(fls, drs, path) == path \in DOMAIN fls \/ Append(path[1], path[2]) \in drs

\* Path.is_dir() of target / name
IsDir(drs, name) == <<name>> \in drs

\* target_dir.iterdir() : the names directly below the target directory
Entries(fls, drs) == {p[2] : p \in {q \in DOMAIN fls : q[1] = Root}} \cup {d[1] : d \in {e \in drs : Len(e) = 1}}

\* the removal of one path and the binding of another, as os.rename does
Rebind(fls, src, dst) == [p \in (DOMAIN fls \ {src}) \cup {dst} |-> IF p = dst THEN fls[src] ELSE fls[p]]

\* Path.mkdir(parents=True, exist_ok=True) : raises when a file is in the way
Mkdir(fls, drs, dir) ==
  IF \E k \in 1..Len(dir) : <<SubSeq(dir, 1, k - 1), dir[k]>> \in DOMAIN fls
  THEN [raised |-> TRUE, dirs |-> drs]
  ELSE [raised |-> FALSE, dirs |-> drs \cup {SubSeq(dir, 1, k) : k \in 1..Len(dir)}]

\* shutil.move(src, dst) : os.rename replaces an existing file at dst;
\* a dst that is a directory receives the file under its own name
ShutilMove(fls, drs, src, dst, move_ok) ==
  LET into == <<Append(dst[1], dst[2]), src[2]>>
      real_dst == IF Append(dst[1], dst[2]) \in drs THEN into ELSE dst IN
  IF src \notin DOMAIN fls \/ ~move_ok THEN [error |-> TRUE, files |-> fls]
  ELSE IF real_dst # dst /\ Exists(fls, drs, real_dst) THEN [error |-> TRUE, files |-> fls]
  ELSE [error |-> FALSE, files |-> Rebind(fls, src, real_dst)]

----------------------------------------------------------------------------
(***************************************************************************)
(* FileOrganizer.                                                          *)
(***************************************************************************)

NoConfig == [unset |-> TRUE]

\* FileOrganizer.load_config
ExpandUser(p) == IF StartsWith(p, <<"~">>) THEN <<"/", "home">> \o Tail(p) ELSE p

LoadConfig(doc) ==
  IF "malformed" \in DOMAIN doc THEN [raised |-> TRUE, config |-> NoConfig]
  ELSE IF "target_directory" \notin DOMAIN doc THEN [raised |-> TRUE, config |-> NoConfig]
  ELSE [raised |-> FALSE,
        config |-> [k \in DOMAIN doc |-> IF k = "target_directory" THEN ExpandUser(doc[k]) ELSE doc[k]]]

\* FileOrganizer.get_date_group
GetDateGroup(cfg, fls, path, t) ==
  IF path \notin DOMAIN fls THEN <<"Unknown">>
  ELSE LET days_diff == (t - fls[path].mtime) \div DaySeconds
           date_groups == Get(cfg, "date_groups", [none |-> 0]) IN
       IF days_diff <= Get(date_groups, "last_week", DefaultLastWeek) THEN <<"Last_Week">>
       ELSE IF days_diff <= Get(date_groups, "last_month", DefaultLastMonth) THEN <<"Last_Month">>
       ELSE <<"Older">>

\* should_process_file without the test on the leading '.' and '~$'
ShouldProcessFile_NoNameTest(drs, lck, name) ==
  IF IsDir(drs, name) THEN FALSE
  ELSE name \notin lck

\* FileOrganizer.should_process_file : lck holds the names whose open(.., 'a')
\* fails.  The open of an existing file changes nothing, and every entry of a
\* listing exists when its turn comes (EntryExists)
ShouldProcessFile(drs, lck, name) ==
  IF IsDir(drs, name) \/ StartsWith(name, <<".">>) \/ StartsWith(name, <<"~", "$">>) THEN FALSE
  ELSE name \notin lck

\* FileOrganizer.resolve_conflict
ResolveConflict(cfg, fls, drs, destination, t) ==
  LET resolution == Get(cfg, "conflict_resolution", "rename")
      stem == Stem(destination[2])
      suffix == Suffix(destination[2])
      new_destination == <<destination[1], stem \o <<"_", Timestamp(t)>> \o suffix>> IN
  IF ~Exists(fls, drs, destination) THEN [none |-> FALSE, path |-> destination, conflict |-> FALSE]
  ELSE IF resolution = "skip" THEN [none |-> TRUE, path |-> destination, conflict |-> TRUE]
  ELSE IF resolution = "overwrite" THEN [none |-> FALSE, path |-> destination, conflict |-> TRUE]
  ELSE IF resolution = "rename" THEN [none |-> FALSE, path |-> new_destination, conflict |-> TRUE]
  ELSE [none |-> TRUE, path |-> destination, conflict |-> TRUE]

\* FileOrganizer.create_subfolder_path
CreateSubfolderPath(fls, path, pattern) ==
  IF pattern = <<>> THEN [raised |-> FALSE, value |-> <<>>]
  ELSE IF path \notin DOMAIN fls THEN [raised |-> TRUE, value |-> <<>>]
  ELSE LET mod_time == fls[path].mtime
           p1 == Replace(pattern, "YYYY", <<Strftime(mod_time, "%Y")>>)
           p2 == Replace(p1, "MM", <<Strftime(mod_time, "%m")>>)
           p3 == Replace(p2, "DD", <<Strftime(mod_time, "%d")>>)
           p4 == Replace(p3, "HH", <<Strftime(mod_time, "%H")>>)
           p5 == Replace(p4, "MI", <<Strftime(mod_time, "%M")>>) IN
       [raised |-> FALSE, value |-> p5]

\* process_file, lines 139-148 : does the condition match the file name
Matches(condition, name) ==
  LET extensions == Get(condition, "extension", <<>>)
      filename_contains == Get(condition, "filename_contains", <<>>)
      matches_extension ==
        \/ InList(<<"*">>, extensions)
        \/ \E i \in 1..Len(extensions) : Lower(extensions[i]) = Lower(Suffix(name))
      matches_filename ==
        \/ filename_contains = <<>>
        \/ \E i \in 1..Len(filename_contains) : Contains(Lower(name), Lower(filename_contains[i])) IN
  matches_extension /\ matches_filename

\* file_path.suffix[1:]
SuffixTail(name) == IF Suffix(name) = <<>> THEN <<>> ELSE Tail(Suffix(name))

\* process_file, lines 164-169 : the subfolder is joined to the destination
JoinSubfolder(destination_dir, sub) ==
  [raised |-> sub.raised,
   value |-> IF sub.value # <<>> THEN PathJoin(destination_dir, sub.value) ELSE destination_dir]

\* process_file, lines 151-169 : the destination directory string of a condition
DestinationDir(cfg, fls, condition, name, t) ==
  LET d0 == Get(condition, "destination", <<>>)
      d1 == Replace(d0, "{extension_group}", Upper(SuffixTail(name)))
      d2 == Replace(d1, "{date_group}", GetDateGroup(cfg, fls, <<Root, name>>, t))
      d3 == Replace(d2, "{filename_prefix}", SplitFirst(Stem(name))) IN
  JoinSubfolder(d3, CreateSubfolderPath(fls, <<Root, name>>, Get(condition, "subfolder_pattern", <<>>)))

\* one entry of the history of a process_file call: what was done for the
\* condition c of rule r
Event(r, c, dir, path, conflict, outcome) ==
  [rule |-> r, cond |-> c, dir |-> dir, path |-> path, conflict |-> conflict, outcome |-> outcome]

\* process_file, lines 182-194 : the move, or its report in a dry run.
\* next is what the loop does then: "continue" with the next condition of the
\* rule, "break" to the next rule
MoveOrLog(env, st, r, c, full_destination, drs, resolved, moved) ==
  IF env.dry_run
  THEN [next |-> "break",
        st |-> [st EXCEPT !.dirs = drs, !.processed = TRUE,
                          !.events = Append(@, Event(r, c, full_destination, resolved.path,
                                                     resolved.conflict, "simulated"))]]
  ELSE IF moved.error
  THEN [next |-> "continue",
        st |-> [st EXCEPT !.dirs = drs,
                          !.events = Append(@, Event(r, c, full_destination, resolved.path,
                                                     resolved.conflict, "move_error"))]]
  ELSE [next |-> "break",
        st |-> [st EXCEPT !.dirs = drs, !.files = moved.files, !.processed = TRUE,
                          !.events = Append(@, Event(r, c, full_destination, resolved.path,
                                                     resolved.conflict, "moved"))]]

\* process_file, lines 177-180 : the conflict resolution and its None
HandleConflict(env, st, r, c, full_destination, drs, resolved) ==
  IF resolved.none
  THEN [next |-> "continue",
        st |-> [st EXCEPT !.dirs = drs,
                          !.events = Append(@, Event(r, c, full_destination, resolved.path,
                                                     resolved.conflict, "skip"))]]
  ELSE MoveOrLog(env, st, r, c, full_destination, drs, resolved,
                 ShutilMove(st.files, drs, <<Root, env.name>>, resolved.path, env.move_ok))

\* process_file, lines 171-175 : the destination directory is created, in a dry
\* run too; an exception of mkdir leaves process_file
MakeDestination(env, st, r, c, full_destination, made) ==
  IF made.raised
  THEN [next |-> "raise",
        st |-> [st EXCEPT !.raised = TRUE,
                          !.events = Append(@, Event(r, c, full_destination, <<Root, env.name>>,
                                                     FALSE, "raise"))]]
  ELSE HandleConflict(env, st, r, c, full_destination, made.dirs,
                      ResolveConflict(env.config, st.files, made.dirs,
                                      <<full_destination, env.name>>, env.now))

\* process_file, lines 151-173 : an exception of create_subfolder_path leaves
\* process_file
ExpandDestination(env, st, r, c, dest) ==
  IF dest.raised
  THEN [next |-> "raise",
        st |-> [st EXCEPT !.raised = TRUE,
                          !.events = Append(@, Event(r, c, <<>>, <<Root, env.name>>, FALSE, "raise"))]]
  ELSE MakeDestination(env, st, r, c, PathParts(dest.value, <<>>),
                       Mkdir(st.files, st.dirs, PathParts(dest.value, <<>>)))

\* process_file, lines 135-194 : the body of the condition loop for condition c
\* of rule r
ApplyCondition(env, st, r, c) ==
  IF ~Matches(Get(env.config.rules[r], "conditions", <<>>)[c], env.name)
  THEN [next |-> "continue", st |-> st]
  ELSE ExpandDestination(env, st, r, c,
                         DestinationDir(env.config, st.files,
                                        Get(env.config.rules[r], "conditions", <<>>)[c], env.name, env.now))

\* process_file, lines 133-134 and 194 : rules outer, conditions inner; break
\* leaves the condition loop only, continue goes to the next condition
RECURSIVE RunRules(_, _, _, _)
RECURSIVE AfterCondition(_, _, _, _)
RunRules(env, st, r, c) ==
  IF st.raised \/ r > Len(Get(env.config, "rules", <<>>)) THEN st
  ELSE IF c > Len(Get(env.config.rules[r], "conditions", <<>>)) THEN RunRules(env, st, r + 1, 1)
  ELSE AfterCondition(env, ApplyCondition(env, st, r, c), r, c)

AfterCondition(env, out, r, c) ==
  IF out.next = "break" THEN RunRules(env, out.st, r + 1, 1)
  ELSE RunRules(env, out.st, r, c + 1)

\* process_file, line 196 and the exceptions : ret is "True", "False" or "raise"
Returned(st) ==
  [ret |-> IF st.raised THEN "raise" ELSE IF st.processed THEN "True" ELSE "False",
   files |-> st.files, dirs |-> st.dirs, events |-> st.events]

\* FileOrganizer.process_file
ProcessFile(cfg, fls, drs, lck, name, dry, t, move_ok) ==
  IF ~ShouldProcessFile(drs, lck, name)
  THEN [ret |-> "False", files |-> fls, dirs |-> drs, events |-> <<>>]
  ELSE Returned(RunRules([config |-> cfg, name |-> name, dry_run |-> dry, now |-> t, move_ok |-> move_ok],
                         [files |-> fls, dirs |-> drs, processed |-> FALSE, raised |-> FALSE,
                          events |-> <<>>],
                         1, 1))

----------------------------------------------------------------------------
(***************************************************************************)
(* The inputs of the model: directory contents and configuration files.    *)
(***************************************************************************)

FA == <<"a", ".", "txt">>
FAT == <<"a", "_", Timestamp(1), ".", "txt">>
FB == <<"b", "_", "x", ".", "TXT">>
HID == <<".", "h", ".", "txt">>
LCK == <<"~", "$", "l", ".", "txt">>
SUB == <<"s">>
D == <<<<"D">>>>

Age(days) == 0 - days * DaySeconds

\* who is in the target directory when the program starts
RootFile(name) ==
  CASE name = FA -> [id |-> 1, mtime |-> Age(3)]
    [] name = FAT -> [id |-> 2, mtime |-> Age(3)]
    [] name = FB -> [id |-> 3, mtime |-> Age(10)]
    [] name = HID -> [id |-> 4, mtime |-> Age(400)]
    [] name = LCK -> [id |-> 5, mtime |-> Age(3)]

\* files already in the directory D
OldFile(name) ==
  CASE name = FA -> [id |-> 11, mtime |-> Age(400)]
    [] name = FAT -> [id |-> 12, mtime |-> Age(400)]

Scenarios ==
  { [root |-> {FA}, subdirs |-> {}, old |-> {}, locked |-> {}],
    [root |-> {FA}, subdirs |-> {}, old |-> {FA}, locked |-> {}],
    [root |-> {FA}, subdirs |-> {}, old |-> {FA, FAT}, locked |-> {}],
    [root |-> {FA, FAT}, subdirs |-> {}, old |-> {FA}, locked |-> {}],
    [root |-> {FA, FB}, subdirs |-> {}, old |-> {}, locked |-> {}],
    [root |-> {FA, FB}, subdirs |-> {}, old |-> {}, locked |-> {FB}],
    [root |-> {FA, HID, LCK}, subdirs |-> {SUB}, old |-> {}, locked |-> {}] }

ScenarioFiles(sc) ==
  [p \in {<<Root, n>> : n \in sc.root} \cup {<<D, n>> : n \in sc.old} |->
     IF p[1] = Root THEN RootFile(p[2]) ELSE OldFile(p[2])]

ScenarioDirs(sc) == {<<n>> : n \in sc.subdirs} \cup (IF sc.old = {} THEN {} ELSE {D})

\* conditions
cTxtD == [extension |-> <<<<".", "TXT">>>>, destination |-> <<"D">>]
cAnyE == [extension |-> <<<<"*">>>>, destination |-> <<"E">>]
cAnyEPat == [extension |-> <<<<"*">>>>, destination |-> <<"E">>, subfolder_pattern |-> <<"YYYY", "-", "MM">>]
cGroup == [extension |-> <<<<".", "txt">>>>, destination |-> <<"D", "/", "{extension_group}">>]
cPrefix == [extension |-> <<<<".", "pdf">>, <<".", "txt">>>>, filename_contains |-> <<<<"B">>>>,
            destination |-> <<"{filename_prefix}", "/", "{date_group}">>]
cRoot == [extension |-> <<<<"*">>>>, destination |-> <<>>]

Rule(conds) == [name |-> "r", conditions |-> conds]

Target == <<"/", "t">>

Doc(rs, policy) == [target_directory |-> Target, rules |-> rs, conflict_resolution |-> policy]

ConfigDocs ==
  { Doc(<<Rule(<<cTxtD>>)>>, p) : p \in {"skip", "overwrite", "rename"} }
  \cup { Doc(<<Rule(<<cRoot>>)>>, p) : p \in {"skip", "overwrite", "rename"} }
  \cup { Doc(<<Rule(<<cTxtD>>), Rule(<<cAnyE>>)>>, p) : p \in {"skip", "rename"} }
  \cup { Doc(<<Rule(<<cTxtD, cAnyE>>)>>, p) : p \in {"skip", "rename"} }
  \cup { Doc(<<Rule(<<cTxtD>>), Rule(<<cAnyEPat>>)>>, "rename"),
         Doc(<<Rule(<<cGroup>>)>>, "rename"),
         Doc(<<>>, "rename"),
         Doc(<<Rule(<<cTxtD>>)>>, "ask"),
         [target_directory |-> Target, rules |-> <<Rule(<<cPrefix>>), [name |-> "r"], Rule(<<cTxtD>>)>>,
          dry_run |-> TRUE, date_groups |-> [last_week |-> 14]],
         [target_directory |-> <<"~", "/", "t">>, rules |-> <<Rule(<<cTxtD>>)>>],
         [target_directory |-> Target],
         [rules |-> <<Rule(<<cTxtD>>)>>],
         [malformed |-> TRUE] }

\* Path(target_directory).exists()
TargetExists(cfg) == cfg.target_directory = Target

NoTwin == [pc |-> "idle", files |-> <<>>, dirs |-> {}, handled |-> {}, files_processed |-> 0,
           files_skipped |-> 0]

----------------------------------------------------------------------------
(***************************************************************************)
(* The state machine.                                                      *)
(***************************************************************************)

Init ==
  /\ config_doc \in ConfigDocs
  /\ organizer = "unbuilt"
  /\ config = NoConfig
  /\ \E sc \in Scenarios :
       /\ files = ScenarioFiles(sc)
       /\ dirs = ScenarioDirs(sc)
       /\ locked = sc.locked
  /\ now = 0
  /\ pc = "idle"
  /\ dry_run = FALSE
  /\ listing = {}
  /\ handled = {}
  /\ files_processed = 0
  /\ files_skipped = 0
  /\ passes = 0
  /\ files0 = files
  /\ dirs0 = dirs
  /\ events = <<>>
  /\ log = <<>>
  /\ twin = NoTwin

\* FileOrganizer.__init__ : load_config raises or the organizer is built
Construct ==
  /\ organizer = "unbuilt"
  /\ \E loaded \in {LoadConfig(config_doc)} :
       /\ organizer' = IF loaded.raised THEN "raised" ELSE "built"
       /\ config' = loaded.config
  /\ UNCHANGED <<config_doc, files, dirs, locked, now, pc, dry_run, listing, handled, files_processed,
                 files_skipped, passes, files0, dirs0, events, log, twin>>

\* FileOrganizer.organize_files, lines 198-213 : up to the directory listing.
\* arg is the dry_run argument: "True", "False" (main.py) or "None" (scheduler.py)
OrganizeStart(arg) ==
  /\ organizer = "built"
  /\ pc # "running"
  /\ passes < MaxPasses
  /\ passes' = passes + 1
  /\ dry_run' = IF arg = "None" THEN Get(config, "dry_run", FALSE) ELSE arg = "True"
  /\ files_processed' = 0
  /\ files_skipped' = 0
  /\ handled' = {}
  /\ IF ~TargetExists(config)
     THEN /\ pc' = "returned_none"
          /\ listing' = {}
     ELSE /\ listing' = Entries(files, dirs)
          /\ pc' = IF listing' = {} THEN "done" ELSE "running"
  /\ files0' = files
  /\ dirs0' = dirs
  /\ events' = <<>>
  /\ log' = <<>>
  /\ twin' = NoTwin
  /\ UNCHANGED <<config_doc, organizer, config, files, dirs, locked, now>>

\* FileOrganizer.organize_files, lines 215-223 : one iteration of the loop over
\* the listing (iterdir yields the names in no particular order) and, after
\* the last one, the return of the summary.
\* move_ok is the environment: FALSE when it refuses the move of this file
ProcessNext(name, move_ok) ==
  /\ pc = "running"
  /\ name \in listing \ handled
  /\ \E res \in {ProcessFile(config, files, dirs, locked, name, dry_run, now, move_ok)} :
       /\ files' = res.files
       /\ dirs' = res.dirs
       /\ events' = res.events
       /\ log' = [n \in DOMAIN log \cup {name} |->
                    IF n = name THEN [ret |-> res.ret, events |-> res.events, move_ok |-> move_ok]
                    ELSE log[n]]
       /\ IF res.ret = "raise"
          THEN /\ pc' = "raised"
               /\ UNCHANGED <<handled, files_processed, files_skipped>>
          ELSE /\ handled' = handled \cup {name}
               /\ files_processed' = IF res.ret = "True" THEN files_processed + 1 ELSE files_processed
               /\ files_skipped' = IF res.ret = "True" THEN files_skipped ELSE files_skipped + 1
               /\ pc' = IF handled' = listing THEN "done" ELSE "running"
  /\ UNCHANGED <<config_doc, organizer, config, locked, now, dry_run, listing, passes, files0, dirs0, twin>>

\* the clock advances by one second
Tick ==
  /\ now < MaxNow
  /\ now' = now + 1
  /\ UNCHANGED <<config_doc, organizer, config, files, dirs, locked, pc, dry_run, listing, handled,
                 files_processed, files_skipped, passes, files0, dirs0, events, log, twin>>

Next ==
  \/ Construct
  \/ \E arg \in {"True", "False", "None"} : OrganizeStart(arg)
  \/ \E name \in listing, move_ok \in BOOLEAN : ProcessNext(name, move_ok)
  \/ Tick

Spec == Init /\ [][Next]_vars

(***************************************************************************)
(* The pass run again as a dry run, once the live pass has ended, on a     *)
(* copy of the directory as it was when the live pass started.             *)
(***************************************************************************)
TwinStart ==
  /\ pc \in {"done", "raised"}
  /\ ~dry_run
  /\ twin.pc = "idle"
  /\ twin' = [pc |-> IF listing = {} THEN "done" ELSE "running", files |-> files0, dirs |-> dirs0,
              handled |-> {}, files_processed |-> 0, files_skipped |-> 0]
  /\ UNCHANGED <<config_doc, organizer, config, files, dirs, locked, now, pc, dry_run, listing, handled,
                 files_processed, files_skipped, passes, files0, dirs0, events, log>>

TwinStep(name) ==
  /\ twin.pc = "running"
  /\ name \in listing \ twin.handled
  /\ \E res \in {ProcessFile(config, twin.files, twin.dirs, locked, name, TRUE, now, TRUE)} :
       twin' = IF res.ret = "raise"
               THEN [twin EXCEPT !.pc = "raised", !.files = res.files, !.dirs = res.dirs]
               ELSE [pc |-> IF twin.handled \cup {name} = listing THEN "done" ELSE "running",
                     files |-> res.files, dirs |-> res.dirs, handled |-> twin.handled \cup {name},
                     files_processed |-> IF res.ret = "True" THEN twin.files_processed + 1
                                         ELSE twin.files_processed,
                     files_skipped |-> IF res.ret = "True" THEN twin.files_skipped
                                       ELSE twin.files_skipped + 1]
  /\ UNCHANGED <<config_doc, organizer, config, files, dirs, locked, now, pc, dry_run, listing, handled,
                 files_processed, files_skipped, passes, files0, dirs0, events, log>>

NextPair == Next \/ TwinStart \/ (\E name \in listing : TwinStep(name))

SpecPair == Init /\ [][NextPair]_vars

----------------------------------------------------------------------------
(***************************************************************************)
(* Properties.                                                             *)
(***************************************************************************)

Policy == Get(config, "conflict_resolution", "rename")

Ids(fls) == {fls[p].id : p \in DOMAIN fls}

\* the entry that the step, if it is an iteration of the loop, has been through
Stepped(n) == n \in DOMAIN log' /\ n \notin DOMAIN log

\* an entry that is a directory, hidden or a lock marker
Skippable(n) == <<n>> \in dirs \/ n[1] = "." \/ (Len(n) >= 2 /\ n[1] = "~" /\ n[2] = "$")

\* the positions <<rule, condition>> of the conditions that match the name
MatchingAt(n) ==
  LET rules == Get(config, "rules", <<>>) IN
  {rc \in (1..Len(rules)) \X (1..2) :
     /\ rc[2] <= Len(Get(rules[rc[1]], "conditions", <<>>))
     /\ Matches(rules[rc[1]].conditions[rc[2]], n)}

FirstMatchingAt(n) ==
  CHOOSE rc \in MatchingAt(n) :
    \A o \in MatchingAt(n) : rc[1] < o[1] \/ (rc[1] = o[1] /\ rc[2] <= o[2])

\* C1: a pass run with dry_run=True leaves the files and directories under
\* the target directory as they were when the pass started.
C1_DryRunMutatesNothing ==
  (pc \in {"running", "done", "raised"} /\ dry_run) => (files = files0 /\ dirs = dirs0)

\* C2: first match wins: once a condition has produced a move or a simulated
\* move for a file, process_file acts on no further condition for that file.
C2_FirstMatchWins ==
  \A i \in 1..Len(events) : events[i].outcome \in {"moved", "simulated"} => i = Len(events)

\* C3: under conflict policy skip, a file whose first matching condition
\* resolves to a destination path that already exists stays where it is and
\* is counted as skipped, not as processed.
C3_SkipLeavesSource ==
  \A n \in DOMAIN log :
    (Policy = "skip" /\ log[n].events # <<>> /\ log[n].events[1].conflict)
      => (<<Root, n>> \in DOMAIN files /\ log[n].ret = "False")

\* C4: no failure while handling one file propagates out of the pass.
C4_FailuresIsolated == pc # "raised"

\* C5: under conflict policy rename, a live move to a destination path that
\* already holds a file puts the moved file at <stem>_<timestamp><suffix> in the
\* destination directory and leaves the file at the destination path in place
\* with the same content.
C5_RenameKeepsExisting ==
  [][\A n \in listing :
       (Stepped(n) /\ Policy = "rename" /\ ~dry_run) =>
         \A i \in 1..Len(events') :
           (events'[i].outcome = "moved" /\ events'[i].conflict /\ <<events'[i].dir, n>> \in DOMAIN files) =>
             /\ <<events'[i].dir, Stem(n) \o <<"_", Timestamp(now)>> \o Suffix(n)>> \in DOMAIN files'
             /\ <<events'[i].dir, n>> \in DOMAIN files'
             /\ files'[<<events'[i].dir, n>>] = files[<<events'[i].dir, n>>]]_vars

NoConflictNoFailure ==
  \A n \in DOMAIN log : \A i \in 1..Len(log[n].events) :
    ~log[n].events[i].conflict /\ log[n].events[i].outcome # "move_error"

Placeable(n) == ShouldProcessFile(dirs0, locked, n) /\ MatchingAt(n) # {}

PlacedAt(n) ==
  LET rc == FirstMatchingAt(n)
      dest == DestinationDir(config, files0, config.rules[rc[1]].conditions[rc[2]], n, now) IN
  <<PathParts(dest.value, <<>>), n>>

\* C6: after a live pass without destination conflict and without move
\* failure, every processable file that matches a condition is at the expanded
\* destination of its first matching condition and no longer at its original
\* path, files_processed counts these files and files_skipped the other entries.
C6_EndToEndPlacement ==
  (pc \in {"done", "raised"} /\ ~dry_run /\ NoConflictNoFailure) =>
    /\ pc = "done"
    /\ \A n \in listing : Placeable(n) =>
         /\ PlacedAt(n) \in DOMAIN files
         /\ files[PlacedAt(n)] = files0[<<Root, n>>]
         /\ <<Root, n>> \notin DOMAIN files
    /\ files_processed = Cardinality({n \in listing : Placeable(n)})
    /\ files_skipped = Cardinality({n \in listing : ~Placeable(n)})

\* C7: when the environment refuses no move, a dry-run pass and a live pass
\* from the same directory contents and configuration return the same
\* (files_processed, files_skipped).
C7_DryRunCountsAgree ==
  (/\ pc \in {"done", "raised"}
   /\ ~dry_run
   /\ twin.pc \in {"done", "raised"}
   /\ \A n \in DOMAIN log : log[n].move_ok)
    => /\ pc = "done"
       /\ twin.pc = "done"
       /\ files_processed = twin.files_processed
       /\ files_skipped = twin.files_skipped

BadConfig ==
  \/ "malformed" \in DOMAIN config_doc
  \/ "target_directory" \notin DOMAIN config_doc
  \/ "rules" \notin DOMAIN config_doc

\* C8: under a configuration that is malformed or lacks target_directory or
\* rules, the organizer is never built and no pass examines, counts or moves a file.
C8_BadConfigIsFatal ==
  BadConfig => (organizer # "built" /\ passes = 0 /\ DOMAIN log = {})

\* C9: an entry that is a directory, hidden or a lock marker is matched against
\* no rule, is not moved, has no destination directory created for it, and is
\* counted as skipped.
C9_SkippableNeverClassified ==
  [][\A n \in listing :
       (Stepped(n) /\ Skippable(n)) =>
         /\ files' = files
         /\ dirs' = dirs
         /\ events' = <<>>
         /\ pc' # "raised"
         /\ files_skipped' = files_skipped + 1
         /\ files_processed' = files_processed]_vars

\* a live pass under a wildcard rule has been through a hidden file, a lock
\* marker and a directory and has moved another file
C9_Witness ==
  /\ pc = "done"
  /\ ~dry_run
  /\ {HID, LCK, SUB} \subseteq handled
  /\ \E r \in 1..Len(Get(config, "rules", <<>>)) : InList(cAnyE, config.rules[r].conditions)
  /\ files_processed = 1
  /\ files_skipped = 3
  /\ {<<Root, HID>>, <<Root, LCK>>} \subseteq DOMAIN files

\* C10: under the policies skip and rename, every file that was under the
\* target directory when a pass started is still there, with its content, at
\* every later moment of the pass.
C10_NoFileDestroyed ==
  Policy \in {"skip", "rename"} => Ids(files0) \subseteq Ids(files)

\* every entry of the listing is still in the directory when its turn comes
EntryExists ==
  pc = "running" => \A n \in listing \ handled : Exists(files, dirs, <<Root, n>>)

====
